---------------------------- MODULE Spec2Model ----------------------------
(***************************************************************************)
(* A model of app.py, the "DCA em Bitcoin (BRL)" script:                   *)
(*   load_series  (lines 16-76)   two daily downloads -> the BTC-BRL frame *)
(*   the monthly schedule (109-138)  one execution date per month          *)
(*   the DCA simulation loop (143-174), the empty-ledger fallback          *)
(*   (176-192) and the summary (195-201).                                  *)
(* A run of the script is one behaviour: the sidebar values are drawn in   *)
(* Init, the two downloads are drawn when load_series runs, and every loop *)
(* iteration is one step.                                                  *)
(*                                                                         *)
(* Dates are the integers YYYYMMDD, so that the order of the integers is   *)
(* the order of the dates.  Python floats are modelled as exact rationals  *)
(* <<n, d>> with d > 0 in lowest terms, NaN as <<0, 0>>, and a division by  *)
(* zero (a ZeroDivisionError for Python floats) as <<1, 0>>.               *)
(***************************************************************************)
EXTENDS Integers, Sequences, FiniteSets, TLC

(***************************************************************************)
(* Bounds of the model.                                                    *)
(***************************************************************************)
\* the slider offers 1..12 years of history; the model stops at MaxAnos
MaxAnos == 1
\* raw BTC-USD quotes are drawn from 0..MaxQuote
MaxQuote == 2

(***************************************************************************)
(* Calendar: datetime.date / pd.Timestamp / pd.Period arithmetic.          *)
(***************************************************************************)
YearOf(d) == d \div 10000
MonthOf(d) == (d \div 100) % 100
DayOf(d) == d % 100
\* pd.Timestamp(...).to_period("M"): the month YYYYMM a date lies in
ToPeriod(d) == d \div 100
PeriodYear(p) == p \div 100
PeriodMonth(p) == p % 100
MkDate(y, m, d) == y * 10000 + m * 100 + d

IsLeap(y) == (y % 4 = 0 /\ y % 100 # 0) \/ y % 400 = 0

DaysInMonth(y, m) ==
    IF m = 2 THEN (IF IsLeap(y) THEN 29 ELSE 28)
    ELSE IF m \in {4, 6, 9, 11} THEN 30 ELSE 31

\* date + timedelta(days=1)
PlusOneDay(d) ==
    IF DayOf(d) < DaysInMonth(YearOf(d), MonthOf(d)) THEN d + 1
    ELSE IF MonthOf(d) < 12 THEN MkDate(YearOf(d), MonthOf(d) + 1, 1)
    ELSE MkDate(YearOf(d) + 1, 1, 1)

Min(a, b) == IF a <= b THEN a ELSE b

\* date - relativedelta(years=n): same month, the day clamped to the month
MinusYears(d, n) ==
    MkDate(YearOf(d) - n, MonthOf(d),
           Min(DayOf(d), DaysInMonth(YearOf(d) - n, MonthOf(d))))

NextPeriod(p) ==
    IF PeriodMonth(p) < 12 THEN p + 1 ELSE (PeriodYear(p) + 1) * 100 + 1

\* pd.period_range(start=a, end=b, freq="M"): the months a..b in order
RECURSIVE PeriodRange(_, _)
PeriodRange(a, b) ==
    IF a > b THEN << >> ELSE << a >> \o PeriodRange(NextPeriod(a), b)

(***************************************************************************)
(* Floats.                                                                 *)
(***************************************************************************)
NaN == << 0, 0 >>
ZeroDiv == << 1, 0 >>
IsNum(a) == a[2] > 0
IsNaN(a) == ~IsNum(a)

Abs(n) == IF n < 0 THEN -n ELSE n

RECURSIVE GCD(_, _)
GCD(a, b) == IF b = 0 THEN a ELSE GCD(b, a % b)

Reduce(n, d) ==
    LET g == GCD(Abs(n), d) IN << n \div g, d \div g >>

F(n) == << n, 1 >>
Zero == << 0, 1 >>

FAdd(a, b) ==
    IF a = ZeroDiv \/ b = ZeroDiv THEN ZeroDiv
    ELSE IF IsNaN(a) \/ IsNaN(b) THEN NaN
    ELSE Reduce(a[1] * b[2] + b[1] * a[2], a[2] * b[2])

FSub(a, b) ==
    IF a = ZeroDiv \/ b = ZeroDiv THEN ZeroDiv
    ELSE IF IsNaN(a) \/ IsNaN(b) THEN NaN
    ELSE Reduce(a[1] * b[2] - b[1] * a[2], a[2] * b[2])

FMul(a, b) ==
    IF a = ZeroDiv \/ b = ZeroDiv THEN ZeroDiv
    ELSE IF IsNaN(a) \/ IsNaN(b) THEN NaN
    ELSE Reduce(a[1] * b[1], a[2] * b[2])

\* Python's float / float: raises ZeroDivisionError on a zero divisor
FDiv(a, b) ==
    IF a = ZeroDiv \/ b = ZeroDiv THEN ZeroDiv
    ELSE IF IsNaN(a) \/ IsNaN(b) THEN NaN
    ELSE IF b[1] = 0 THEN ZeroDiv
    ELSE IF b[1] > 0 THEN Reduce(a[1] * b[2], a[2] * b[1])
    ELSE Reduce(-(a[1] * b[2]), a[2] * (-b[1]))

\* x > 0 (False for NaN)
FPos(a) == IsNum(a) /\ a[1] > 0

(***************************************************************************)
(* load_series (lines 16-76).                                              *)
(*                                                                         *)
(* A frame returned by yf.download is a record                             *)
(*   [multi   |-> whether df.columns is a MultiIndex,                      *)
(*    columns |-> the column keys: <<field>>, or <<field, ticker>> when    *)
(*                multi,                                                   *)
(*    index   |-> the set of dates of its rows,                            *)
(*    data    |-> for each column key, a function from index to a float].  *)
(* A Series or a DataFrame is the sequence of its rows in index order.     *)
(***************************************************************************)
BTC == "BTC-USD"
USD == "USDBRL=X"
Fields == << "Adj Close", "Close" >>

\* the column key under which _download_single looks a field up (40, 48)
ColumnKey(df, field, ticker) ==
    IF df.multi THEN << field, ticker >> ELSE << field >>

\* the for/else of lines 39-44 and 47-52: the first field of
\* ("Adj Close", "Close") that is a column, or none
RECURSIVE FindField(_, _, _)
FindField(df, ticker, i) ==
    IF i > Len(Fields) THEN "none"
    ELSE IF ColumnKey(df, Fields[i], ticker) \in df.columns THEN Fields[i]
    ELSE FindField(df, ticker, i + 1)

Least(S) == CHOOSE x \in S : \A y \in S : x <= y
Greatest(S) == CHOOSE x \in S : \A y \in S : y <= x

RECURSIVE Ascending(_)
Ascending(S) ==
    IF S = {} THEN << >> ELSE << Least(S) >> \o Ascending(S \ {Least(S)})

\* s.sort_index() on the selected column (55): its rows <<date, value>>,
\* by date ascending
SortIndex(col) ==
    LET idx == Ascending(DOMAIN col)
    IN [i \in 1..Len(idx) |-> [Date |-> idx[i], v |-> col[idx[i]]]]

KeepNum(row) == IsNum(row.v)

\* s.dropna() (55)
Dropna(s) == SelectSeq(s, KeepNum)

\* len(df) == 0 (33)
FrameEmpty(df) == df.index = {}

\* _download_single (23-56): the error it raises ("none" when it returns)
\* and the series it returns
DownloadSingle(df, ticker) ==
    LET field == FindField(df, ticker, 1)
    IN IF FrameEmpty(df)
       THEN [err |-> "RuntimeError: nenhum dado", s |-> << >>]
       ELSE IF field = "none" THEN [err |-> "KeyError", s |-> << >>]
       ELSE [err |-> "none",
             s |-> Dropna(SortIndex(df.data[ColumnKey(df, field, ticker)]))]

SeriesDates(s) == {s[i].Date : i \in 1..Len(s)}
ValueAt(s, d) == (CHOOSE i \in 1..Len(s) : s[i].Date = d)

\* the rows of a frame put in index order (df.sort_index(), 61)
RECURSIVE SortRows(_)
SortRows(rows) ==
    IF Len(rows) = 0 THEN << >>
    ELSE LET first == CHOOSE i \in 1..Len(rows) :
                         \A j \in 1..Len(rows) : rows[i].Date <= rows[j].Date
             rest == [j \in 1..(Len(rows) - 1) |->
                         IF j < first THEN rows[j] ELSE rows[j + 1]]
         IN << rows[first] >> \o SortRows(rest)

\* pd.concat([btc_usd, usd_brl], axis=1) (61): an outer join on the date;
\* a date missing from one series gets NaN there.  The rows come out as the
\* dates of the first series followed by the dates only the second has.
Concat(b, u) ==
    LET cell(s, d) == IF d \in SeriesDates(s) THEN s[ValueAt(s, d)].v ELSE NaN
        row(d) == [Date |-> d, btc_usd |-> cell(b, d), usd_brl |-> cell(u, d)]
        left == [i \in 1..Len(b) |-> row(b[i].Date)]
        only(r) == r.Date \notin SeriesDates(b)
        right == SelectSeq([i \in 1..Len(u) |-> row(u[i].Date)], only)
    IN left \o right

\* a mutant of LastValid: a back-fill, the next valid value at or below row i
RECURSIVE NextValid(_, _, _)
NextValid(rows, col, i) ==
    IF i > Len(rows) THEN NaN
    ELSE IF IsNum(rows[i][col]) THEN rows[i][col]
    ELSE NextValid(rows, col, i + 1)

\* the value .ffill() leaves in row i of a column: the last valid value at
\* or above row i, NaN when there is none
RECURSIVE LastValid(_, _, _)
LastValid(rows, col, i) ==
    IF i = 0 THEN NaN
    ELSE IF IsNum(rows[i][col]) THEN rows[i][col]
    ELSE LastValid(rows, col, i - 1)

\* a mutant of Ffill: the gaps are left as they are
NoFfill(rows, col) == rows

\* df[col] = df[col].ffill() (64, 66)
Ffill(rows, col) ==
    [i \in 1..Len(rows) |-> [rows[i] EXCEPT ![col] = LastValid(rows, col, i)]]

\* df["btc_brl"] = df["btc_usd"] * df["usd_brl"] (69)
WithBtcBrl(rows) ==
    [i \in 1..Len(rows) |->
        [Date |-> rows[i].Date, btc_usd |-> rows[i].btc_usd,
         usd_brl |-> rows[i].usd_brl,
         btc_brl |-> FMul(rows[i].btc_usd, rows[i].usd_brl)]]

HasBtcBrl(row) == IsNum(row.btc_brl)

\* df.dropna(subset=["btc_brl"]) (72)
DropnaBtcBrl(rows) == SelectSeq(rows, HasBtcBrl)

\* a mutant of DfEmpty: the check of line 73 never fires
DfNeverEmpty(rows) == FALSE

\* df.empty (73)
DfEmpty(rows) == Len(rows) = 0

\* lines 61-72: the frame built from the two cleaned series
Composite(b, u) ==
    DropnaBtcBrl(WithBtcBrl(
        Ffill(Ffill(SortRows(Concat(b, u)), "usd_brl"), "btc_usd")))

\* load_series (58-76) on the two downloads: the error raised ("none" when
\* it returns) and the frame returned
load_series(dfBtc, dfUsd) ==
    LET b == DownloadSingle(dfBtc, BTC)
        u == DownloadSingle(dfUsd, USD)
        df == Composite(b.s, u.s)
    IN IF b.err # "none" THEN [err |-> b.err, df |-> << >>]
       ELSE IF u.err # "none" THEN [err |-> u.err, df |-> << >>]
       ELSE IF DfEmpty(df)
            THEN [err |-> "RuntimeError: serie vazia", df |-> << >>]
       ELSE [err |-> "none", df |-> df]

(***************************************************************************)
(* The script's state.                                                     *)
(***************************************************************************)
VARIABLES
    pc,             \* where the script is: "load", "months", "sim", "frame",
                    \* "summary", "done", or "raised" (it stopped on an
                    \* exception)
    error,          \* the exception raised, "none" so far
    today,          \* date.today()
    anos, dia_d, aporte_mensal,     \* the sidebar values (88-91)
    raw,            \* <<BTC-USD frame, USDBRL=X frame>> as downloaded inside
                    \* load_series, remembered until the schedule loop
                    \* starts; << >> otherwise
    px,             \* the frame load_series returned (103)
    months, mi,     \* the months of the range (109) and the loop's position
    target, exec_dt,    \* the loop's locals (115, 122/127/132)
    branch,         \* which line set exec_dt in the last iteration
    exec_dates,     \* (112, 136, 138)
    k,              \* position of the simulation loop in exec_dates
    btc_cum, brl_investido, records,    \* (143-145)
    dca,            \* the ledger (176-192)
    resumo          \* the summary values (195-201), << >> until computed

vars == << pc, error, today, anos, dia_d, aporte_mensal, raw, px, months, mi,
           target, exec_dt, branch, exec_dates, k, btc_cum, brl_investido,
           records, dca, resumo >>

\* (96, 97)
end_dt == PlusOneDay(today)
start_dt == MinusYears(today, anos)

(***************************************************************************)
(* The inputs the model draws.                                             *)
(***************************************************************************)
Todays == {20230215}
\* number_input(min_value=1, max_value=28): a sample of 1..28
ScheduleDays == {1, 2, 3, 4, 5, 6, 7, 27, 28}
\* number_input(min_value=0.0): a sample of the amounts
Amounts == {Zero, F(1000)}

\* dates a download may carry: two in January 2023, one in February 2023,
\* and one before the analysed range (the script does not check the dates
\* yf.download returns against the range it asked for)
SimDates == {20220131, 20230105, 20230106, 20230203}
NormDates == {20230103, 20230105, 20230106}

\* all columns date -> value over the subsets of Dates
ColumnsOver(Dates, Vals) == UNION {[idx -> Vals] : idx \in SUBSET Dates}

Frame(multi, cols, col) ==
    [multi |-> multi, columns |-> cols, index |-> DOMAIN col,
     data |-> [c \in cols |-> col]]

\* the column layouts yf.download may answer with for a ticker
Layouts(ticker) ==
    {[multi |-> FALSE, columns |-> {<< f >> : f \in fs}] :
        fs \in SUBSET {"Adj Close", "Close"}}
    \cup {[multi |-> TRUE, columns |-> {<< f, ticker >> : f \in fs}] :
        fs \in SUBSET {"Adj Close", "Close"}}

Plain == [multi |-> FALSE, columns |-> {<< "Adj Close" >>, << "Close" >>}]

BtcQuotes == {F(n) : n \in 0..MaxQuote}

\* the downloads of the simulation's specification: plain frames without
\* NaN cells; BTC-USD quoted on any of the dates, one exchange rate quoted
\* on none of them, on the first or on all
SimBtcFrames ==
    {Frame(Plain.multi, Plain.columns, c) : c \in ColumnsOver(SimDates, BtcQuotes)}
SimUsdFrames ==
    {Frame(Plain.multi, Plain.columns, [d \in idx |-> F(5)]) :
        idx \in {{}, {Least(SimDates)}, SimDates}}

\* the downloads of the normalizer's specification: every layout over a few
\* columns, and every column (NaN cells included) in the plain layout
FewColumns(Vals) ==
    {[d \in {} |-> NaN]} \cup {[d \in NormDates |-> v] : v \in Vals \cup {NaN}}

NormFrames(ticker, Vals) ==
    {Frame(l.multi, l.columns, c) : l \in Layouts(ticker), c \in FewColumns(Vals)}
    \cup {Frame(Plain.multi, Plain.columns, c) :
            c \in ColumnsOver(NormDates, Vals \cup {NaN})}
NormBtcFrames == NormFrames(BTC, BtcQuotes)
NormUsdFrames == NormFrames(USD, {F(5), F(6)})

(***************************************************************************)
(* Init: the script has read the sidebar and is about to call load_series. *)
(***************************************************************************)
InitWith(Days, Amts) ==
    /\ pc = "load"
    /\ error = "none"
    /\ today \in Todays
    /\ anos \in 1..MaxAnos
    /\ dia_d \in Days
    /\ aporte_mensal \in Amts
    /\ raw = << >>
    /\ px = << >>
    /\ months = << >>
    /\ mi = 0
    /\ target = 0
    /\ exec_dt = 0
    /\ branch = "none"
    /\ exec_dates = << >>
    /\ k = 0
    /\ btc_cum = Zero
    /\ brl_investido = Zero
    /\ records = << >>
    /\ dca = << >>
    /\ resumo = << >>

Init == InitWith(ScheduleDays, Amounts)
InitNorm == InitWith({5}, {F(1000)})

(***************************************************************************)
(* px = load_series(start_dt, end_dt) (102-103).  The two frames are what  *)
(* yf.download answers; st.cache_data only saves repeating the call.       *)
(***************************************************************************)
LoadReturns(dfBtc, dfUsd, r) ==
    /\ pc = "load"
    /\ r.err = "none"
    /\ raw' = << dfBtc, dfUsd >>
    /\ px' = r.df
    \* months = pd.period_range(...) (109-110), exec_dates = [] (112)
    /\ months' = PeriodRange(ToPeriod(start_dt), ToPeriod(end_dt))
    /\ mi' = 1
    /\ exec_dates' = << >>
    /\ pc' = "months"
    /\ UNCHANGED << error, today, anos, dia_d, aporte_mensal, target, exec_dt,
                    branch, k, btc_cum, brl_investido, records, dca, resumo >>

\* load_series raises: the script stops at line 103
LoadRaises(dfBtc, dfUsd, r) ==
    /\ pc = "load"
    /\ r.err # "none"
    /\ raw' = << dfBtc, dfUsd >>
    /\ error' = r.err
    /\ pc' = "raised"
    /\ UNCHANGED << today, anos, dia_d, aporte_mensal, px, months, mi, target,
                    exec_dt, branch, exec_dates, k, btc_cum, brl_investido,
                    records, dca, resumo >>

(***************************************************************************)
(* The monthly schedule (113-136).                                         *)
(***************************************************************************)
IndexOf(rows) == {rows[i].Date : i \in 1..Len(rows)}

\* target = pd.Timestamp(year=m.year, month=m.month, day=min(dia_d, 28)) (115)
Target(m, dia) == MkDate(PeriodYear(m), PeriodMonth(m), Min(dia, 28))
\* (117)
MonthStart(m) == MkDate(PeriodYear(m), PeriodMonth(m), 1)
\* a mutant of MonthEnd: the end of the following month
EndOfNextMonth(m) ==
    MkDate(PeriodYear(NextPeriod(m)), PeriodMonth(NextPeriod(m)),
           DaysInMonth(PeriodYear(NextPeriod(m)), PeriodMonth(NextPeriod(m))))

\* (month_start + pd.offsets.MonthEnd(0)).normalize() (118)
MonthEnd(m) ==
    MkDate(PeriodYear(m), PeriodMonth(m),
           DaysInMonth(PeriodYear(m), PeriodMonth(m)))

\* px.loc[(px.index >= lo) & (px.index <= hi)] (125, 130)
Between(rows, lo, hi) ==
    LET in(r) == r.Date >= lo /\ r.Date <= hi IN SelectSeq(rows, in)

\* after (125)
After(rows, m, dia) == Between(rows, Target(m, dia), MonthEnd(m))
\* a mutant of Before: only the upper limit, every date <= month_end
BeforeMonthEnd(rows, m) == Between(rows, 0, MonthEnd(m))

\* before (130)
Before(rows, m) == Between(rows, MonthStart(m), MonthEnd(m))

\* a mutant of FirstDate: the last date of the selection
NotFirstDate(rows) == rows[Len(rows)].Date

\* after.index[0] (127)
FirstDate(rows) == rows[1].Date

\* a mutant of LastDate: the first date of the selection
NotLastDate(rows) == rows[1].Date

\* before.index[-1] (132)
LastDate(rows) == rows[Len(rows)].Date

\* one iteration of the loop body (115-135): the line that sets exec_dt
\* ("skip" for the continue of line 135) and the date it sets
Resolve(rows, m, dia) ==
    LET after == After(rows, m, dia)
        before == Before(rows, m)
    IN IF Target(m, dia) \in IndexOf(rows)
       THEN [branch |-> "target", dt |-> Target(m, dia)]
       ELSE IF Len(after) > 0
       THEN [branch |-> "after", dt |-> FirstDate(after)]
       ELSE IF Len(before) > 0
       THEN [branch |-> "before", dt |-> LastDate(before)]
       ELSE [branch |-> "skip", dt |-> 0]

ResolveMonth ==
    /\ pc = "months"
    /\ mi <= Len(months)
    /\ LET r == Resolve(px, months[mi], dia_d)
       IN /\ target' = Target(months[mi], dia_d)
          /\ branch' = r.branch
          /\ exec_dt' = IF r.branch = "skip" THEN exec_dt ELSE r.dt
          /\ exec_dates' = IF r.branch = "skip" THEN exec_dates
                           ELSE Append(exec_dates, r.dt)
    /\ mi' = mi + 1
    /\ raw' = << >>
    /\ UNCHANGED << pc, error, today, anos, dia_d, aporte_mensal, px, months,
                    k, btc_cum, brl_investido, records, dca, resumo >>

\* pd.unique: the values in order of first appearance
RECURSIVE Unique(_)
Unique(seq) ==
    IF Len(seq) = 0 THEN << >>
    ELSE LET init == Unique(SubSeq(seq, 1, Len(seq) - 1))
             last == seq[Len(seq)]
         IN IF \E i \in 1..Len(init) : init[i] = last THEN init
            ELSE Append(init, last)

\* sorted(...)
RECURSIVE Sorted(_)
Sorted(seq) ==
    IF Len(seq) = 0 THEN << >>
    ELSE LET first == CHOOSE i \in 1..Len(seq) :
                         \A j \in 1..Len(seq) : seq[i] <= seq[j]
             rest == [j \in 1..(Len(seq) - 1) |->
                         IF j < first THEN seq[j] ELSE seq[j + 1]]
         IN << seq[first] >> \o Sorted(rest)

\* exec_dates = sorted(pd.unique(exec_dates)) (138); then 143-145
UniqueSorted ==
    /\ pc = "months"
    /\ mi > Len(months)
    /\ exec_dates' = Sorted(Unique(exec_dates))
    /\ records' = << >>
    /\ btc_cum' = Zero
    /\ brl_investido' = Zero
    /\ k' = 1
    /\ pc' = "sim"
    /\ raw' = << >>
    /\ UNCHANGED << error, today, anos, dia_d, aporte_mensal, px, months, mi,
                    target, exec_dt, branch, dca, resumo >>

(***************************************************************************)
(* The DCA simulation loop (147-174).                                      *)
(***************************************************************************)
\* float(px.loc[dt, "btc_brl"]) (148)
PriceAt(rows, dt) == rows[CHOOSE i \in 1..Len(rows) : rows[i].Date = dt].btc_brl

\* aporte_mensal > 0 and price_brl > 0 (149)
Buys(aporte, price) == FPos(aporte) /\ FPos(price)

\* qty_btc (150, 155)
QtyBtc(aporte, price) ==
    IF Buys(aporte, price) THEN FDiv(aporte, price) ELSE Zero

\* btc_cum after the step (151)
BtcCumAfter(cum, aporte, price) ==
    IF Buys(aporte, price) THEN FAdd(cum, QtyBtc(aporte, price)) ELSE cum

\* brl_investido after the step (152)
InvestidoAfter(inv, aporte, price) ==
    IF Buys(aporte, price) THEN FAdd(inv, aporte) ELSE inv

\* pm (153, 156), from the totals after the step
PrecoMedio(buys, inv, cum) ==
    IF buys THEN FDiv(inv, cum)
    ELSE IF FPos(cum) THEN FDiv(inv, cum) ELSE NaN

\* a mutant of Roi: NaN, as for the average price, when nothing is invested
RoiNaN(pnl, inv) ==
    IF FPos(inv) THEN FMul(FDiv(pnl, inv), F(100)) ELSE NaN

\* roi (161)
Roi(pnl, inv) ==
    IF FPos(inv) THEN FMul(FDiv(pnl, inv), F(100)) ELSE Zero

\* the record appended at 163-174
Record(dt, price, aporte, cum0, inv0) ==
    LET cum == BtcCumAfter(cum0, aporte, price)
        inv == InvestidoAfter(inv0, aporte, price)
        val == FMul(cum, price)
        pnl == FSub(val, inv)
    IN [Data |-> dt,
        Preco |-> price,
        Aporte |-> aporte,
        BtcComprado |-> QtyBtc(aporte, price),
        BtcAcumulado |-> cum,
        AportesAcumulados |-> inv,
        ValorMercado |-> val,
        PnL |-> pnl,
        ROI |-> Roi(pnl, inv),
        PrecoMedio |-> PrecoMedio(Buys(aporte, price), inv, cum)]

NumericFields ==
    {"Preco", "Aporte", "BtcComprado", "BtcAcumulado", "AportesAcumulados",
     "ValorMercado", "PnL", "ROI", "PrecoMedio"}

\* a division of the step hit a zero divisor
DividesByZero(rec) == \E f \in NumericFields : rec[f] = ZeroDiv

SimStep ==
    /\ pc = "sim"
    /\ k <= Len(exec_dates)
    /\ IF exec_dates[k] \notin IndexOf(px)
       THEN /\ error' = "KeyError"
            /\ pc' = "raised"
            /\ UNCHANGED << k, btc_cum, brl_investido, records >>
       ELSE LET rec == Record(exec_dates[k], PriceAt(px, exec_dates[k]),
                              aporte_mensal, btc_cum, brl_investido)
            IN IF DividesByZero(rec)
               THEN /\ error' = "ZeroDivisionError"
                    /\ pc' = "raised"
                    /\ UNCHANGED << k, btc_cum, brl_investido, records >>
               ELSE /\ btc_cum' = rec.BtcAcumulado
                    /\ brl_investido' = rec.AportesAcumulados
                    /\ records' = Append(records, rec)
                    /\ k' = k + 1
                    /\ UNCHANGED << pc, error >>
    /\ UNCHANGED << today, anos, dia_d, aporte_mensal, raw, px, months, mi,
                    target, exec_dt, branch, exec_dates, dca, resumo >>

(***************************************************************************)
(* dca = pd.DataFrame(records) and the fallback row (176-192).             *)
(***************************************************************************)
LastRow(rows) == rows[Len(rows)]

\* the row of lines 181-192
SyntheticRow(rows) ==
    [Data |-> LastRow(rows).Date,
     Preco |-> LastRow(rows).btc_brl,
     Aporte |-> Zero,
     BtcComprado |-> Zero,
     BtcAcumulado |-> Zero,
     AportesAcumulados |-> Zero,
     ValorMercado |-> Zero,
     PnL |-> Zero,
     ROI |-> Zero,
     PrecoMedio |-> NaN]

\* a mutant of DcaEmpty: the fallback of line 179 never fires
DcaNeverEmpty(recs) == FALSE

\* dca.empty (179)
DcaEmpty(recs) == Len(recs) = 0

Ledger(recs, rows) ==
    IF DcaEmpty(recs) THEN << SyntheticRow(rows) >> ELSE recs

BuildLedger ==
    /\ pc = "sim"
    /\ k > Len(exec_dates)
    /\ dca' = Ledger(records, px)
    /\ pc' = "summary"
    /\ UNCHANGED << error, today, anos, dia_d, aporte_mensal, raw, px, months,
                    mi, target, exec_dt, branch, exec_dates, k, btc_cum,
                    brl_investido, records, resumo >>

(***************************************************************************)
(* The summary (195-201).                                                  *)
(***************************************************************************)
Resumo(ledger, rows) ==
    LET last_price == LastRow(rows).btc_brl
        btc_total == LastRow(ledger).BtcAcumulado
        invest_total == LastRow(ledger).AportesAcumulados
        val_atual == FMul(btc_total, last_price)
        pnl_atual == FSub(val_atual, invest_total)
    IN [last_price |-> last_price,
        btc_total |-> btc_total,
        invest_total |-> invest_total,
        val_atual |-> val_atual,
        pnl_atual |-> pnl_atual,
        roi_atual |-> Roi(pnl_atual, invest_total),
        preco_medio |-> IF FPos(btc_total) THEN LastRow(ledger).PrecoMedio
                        ELSE NaN]

Summary ==
    /\ pc = "summary"
    /\ IF Len(dca) = 0 \/ Len(px) = 0
       THEN \* .iloc[-1] of an empty column (195), a column of a frame
            \* without rows or columns (196)
            /\ error' = IF Len(px) = 0 THEN "IndexError" ELSE "KeyError"
            /\ pc' = "raised"
            /\ UNCHANGED resumo
       ELSE /\ resumo' = << Resumo(dca, px) >>
            /\ pc' = "done"
            /\ UNCHANGED error
    /\ UNCHANGED << today, anos, dia_d, aporte_mensal, raw, px, months, mi,
                    target, exec_dt, branch, exec_dates, k, btc_cum,
                    brl_investido, records, dca >>

(***************************************************************************)
(* The specifications.                                                     *)
(***************************************************************************)
LoadReturnsFrom(BtcFrames, UsdFrames) ==
    /\ pc = "load"
    /\ \E b \in BtcFrames, u \in UsdFrames :
         LET r == load_series(b, u) IN LoadReturns(b, u, r)

LoadRaisesFrom(BtcFrames, UsdFrames) ==
    /\ pc = "load"
    /\ \E b \in BtcFrames, u \in UsdFrames :
         LET r == load_series(b, u) IN LoadRaises(b, u, r)

LoadOk == LoadReturnsFrom(SimBtcFrames, SimUsdFrames)
LoadFails == LoadRaisesFrom(SimBtcFrames, SimUsdFrames)
LoadOkNorm == LoadReturnsFrom(NormBtcFrames, NormUsdFrames)
LoadFailsNorm == LoadRaisesFrom(NormBtcFrames, NormUsdFrames)

Run == ResolveMonth \/ UniqueSorted \/ SimStep \/ BuildLedger \/ Summary

Next == LoadOk \/ LoadFails \/ Run
NextNorm == LoadOkNorm \/ LoadFailsNorm \/ Run

Spec == Init /\ [][Next]_vars
SpecNorm == InitNorm /\ [][NextNorm]_vars

(***************************************************************************)
(* Properties of the monthly schedule.  They are stated on the state the   *)
(* loop leaves after an iteration: the month just handled is               *)
(* months[mi - 1], and target, exec_dt and branch are that iteration's.    *)
(***************************************************************************)
AfterIteration == pc = "months" /\ mi > 1
MonthDone == months[mi - 1]
\* the claim's target: (year, month, min(scheduleDay, 28))
ClaimTarget == MonthDone * 100 + (IF dia_d < 28 THEN dia_d ELSE 28)
\* the series dates of the month just handled, and those on or after target
InMonthDone == {d \in IndexOf(px) : ToPeriod(d) = MonthDone}
OnOrAfterTarget == {d \in InMonthDone : d >= ClaimTarget}
LastExecDate == exec_dates[Len(exec_dates)]

\* C1: for every month of the range, if the series has a date d with
\* target <= d <= the month's last day, the month's execution date is the
\* earliest such d (target itself when target is quoted)
C1_EarliestOnOrAfterTarget ==
    (AfterIteration /\ OnOrAfterTarget # {}) =>
        /\ target = ClaimTarget
        /\ branch \in {"target", "after"}
        /\ exec_dt = Least(OnOrAfterTarget)
        /\ (ClaimTarget \in IndexOf(px) => exec_dt = ClaimTarget)
        /\ Len(exec_dates) > 0 /\ LastExecDate = exec_dt

\* the forward scan had two quoted dates to choose from, target unquoted
C1_Witness ==
    /\ AfterIteration
    /\ ClaimTarget \notin IndexOf(px)
    /\ Cardinality(OnOrAfterTarget) >= 2
    /\ branch = "after"

\* C2: a month with quoted dates but none on or after target resolves to
\* its latest quoted date; a month without any quoted date adds no
\* execution date
C2_LatestInMonthOrSkip ==
    AfterIteration =>
        /\ (OnOrAfterTarget = {} /\ InMonthDone # {}) =>
              /\ branch = "before"
              /\ exec_dt = Greatest(InMonthDone)
              /\ Len(exec_dates) > 0 /\ LastExecDate = exec_dt
        /\ InMonthDone = {} =>
              /\ branch = "skip"
              /\ \A i \in 1..Len(exec_dates) :
                    ToPeriod(exec_dates[i]) # MonthDone

\* the fallback had two quoted dates to choose from
C2_Witness ==
    /\ AfterIteration
    /\ OnOrAfterTarget = {}
    /\ Cardinality(InMonthDone) >= 2
    /\ branch = "before"

\* C9: when the end-of-month fallback is taken the execution date is before
\* target and inside the month, so the latest date of the month is the
\* latest date before target; and every resolved execution date is a date
\* of the series inside the month it was resolved for
C9_FallbackBeforeTargetInMonth ==
    AfterIteration =>
        /\ branch = "before" =>
              /\ exec_dt < ClaimTarget
              /\ ToPeriod(exec_dt) = MonthDone
              /\ exec_dt = Greatest({d \in InMonthDone : d < ClaimTarget})
              /\ exec_dt = Greatest(InMonthDone)
        /\ branch # "skip" =>
              /\ exec_dt \in IndexOf(px)
              /\ ToPeriod(exec_dt) = MonthDone
              /\ LastExecDate = exec_dt

\* the fallback was taken in a month that is not the first one with quotes
C9_Witness ==
    /\ AfterIteration
    /\ branch = "before"
    /\ Len(exec_dates) >= 2
    /\ Cardinality(InMonthDone) >= 1

(***************************************************************************)
(* Properties of the ledger.                                               *)
(***************************************************************************)
HasLedger == pc \in {"summary", "done"}
MonthsOfRange == {months[i] : i \in 1..Len(months)}
QuotedMonths == {m \in MonthsOfRange : \E d \in IndexOf(px) : ToPeriod(d) = m}
SeriesInRange == \A d \in IndexOf(px) : ToPeriod(d) \in MonthsOfRange

\* C4: when the dates of the series lie in the analysed range, the ledger's
\* dates are strictly increasing, no two events share a month, and every
\* month with a quoted date has exactly one event (sorted(pd.unique(...))
\* removes nothing)
C4_OneEventPerQuotedMonth ==
    /\ (pc = "sim" /\ SeriesInRange) =>
          /\ Len(exec_dates) = Cardinality(QuotedMonths)
          /\ \A i \in 1..Len(exec_dates) : \A j \in 1..Len(exec_dates) :
                i < j => exec_dates[i] < exec_dates[j]
    /\ (HasLedger /\ SeriesInRange) =>
          /\ \A i \in 1..Len(dca) : \A j \in 1..Len(dca) :
                i < j => /\ dca[i].Data < dca[j].Data
                         /\ ToPeriod(dca[i].Data) # ToPeriod(dca[j].Data)
          /\ \A m \in QuotedMonths :
                Cardinality({i \in 1..Len(dca) : ToPeriod(dca[i].Data) = m}) = 1
          /\ Len(dca) = Cardinality(QuotedMonths)

\* a ledger with events in two months
C4_Witness ==
    /\ pc = "done"
    /\ SeriesInRange
    /\ Cardinality(QuotedMonths) >= 2
    /\ Len(dca) >= 2

\* the sum of a column over rows 1..i
RECURSIVE SumTo(_, _, _)
SumTo(rows, col, i) ==
    IF i = 0 THEN Zero ELSE FAdd(SumTo(rows, col, i - 1), rows[i][col])

\* the half of C3 that holds in every ledger: 'BTC acumulado' is the sum of
\* 'BTC comprado' over the rows up to it
C3_UnitsAreRunningSum ==
    HasLedger =>
        \A i \in 1..Len(dca) :
            dca[i].BtcAcumulado = SumTo(dca, "BtcComprado", i)

\* C3: in every ledger, for every row, 'BTC acumulado' is the sum of
\* 'BTC comprado' and 'Aportes acumulados (R$)' is the sum of 'Aporte (R$)'
\* over the rows up to it, steps without a purchase included
C3_CumulativeColumnsAreRunningSums ==
    HasLedger =>
        \A i \in 1..Len(dca) :
            /\ dca[i].BtcAcumulado = SumTo(dca, "BtcComprado", i)
            /\ dca[i].AportesAcumulados = SumTo(dca, "Aporte", i)

\* both halves of C3 hold in the ledgers without a step that recorded an
\* amount and bought nothing (a price <= 0 with an amount > 0)
C3_RunningSumsWhenEveryStepBuys ==
    (HasLedger /\ \A i \in 1..Len(dca) :
                    FPos(dca[i].Preco) \/ dca[i].Aporte = Zero) =>
        \A i \in 1..Len(dca) :
            /\ dca[i].BtcAcumulado = SumTo(dca, "BtcComprado", i)
            /\ dca[i].AportesAcumulados = SumTo(dca, "Aporte", i)

IsZeroEvent(row) ==
    /\ row.BtcComprado = Zero
    /\ row.BtcAcumulado = Zero
    /\ row.AportesAcumulados = Zero
    /\ row.PnL = Zero
    /\ row.ROI = Zero

LoadErrors == {"RuntimeError: nenhum dado", "KeyError", "RuntimeError: serie vazia"}

\* C6: once load_series has returned its (non-empty) series the script
\* raises nothing, and the ledger handed to the summary has at least one
\* row: the single all-zero row dated at the last date of the series when
\* no month resolved, the simulated events (one per execution date)
\* otherwise; both loops stay within their sequences, one record per
\* execution date passed, and the summary is computed at the end
C6_SimulationNeverFailsLedgerNonEmpty ==
    /\ pc \notin {"load", "raised"} => error = "none" /\ Len(px) > 0
    /\ pc = "months" => mi \in 1..(Len(months) + 1)
    /\ pc = "sim" => k \in 1..(Len(exec_dates) + 1) /\ Len(records) = k - 1
    /\ pc = "raised" => Len(px) = 0 /\ Len(raw) = 2
    /\ HasLedger =>
          /\ Len(dca) >= 1
          /\ Len(exec_dates) = 0 =>
                /\ Len(dca) = 1
                /\ dca[1].Data = Greatest(IndexOf(px))
                /\ \A f \in {"Aporte", "BtcComprado", "BtcAcumulado",
                             "AportesAcumulados", "ValorMercado", "PnL", "ROI"} :
                      dca[1][f] = Zero
          /\ Len(exec_dates) > 0 =>
                /\ dca = records
                /\ Len(dca) = Len(exec_dates)
                /\ \A i \in 1..Len(dca) : dca[i].Data = exec_dates[i]
    /\ pc = "done" => Len(resumo) = 1

\* the fallback row was built and summarised
C6_Witness ==
    /\ pc = "done"
    /\ Len(exec_dates) = 0
    /\ Len(dca) = 1
    /\ dca[1].Data = LastRow(px).Date

(***************************************************************************)
(* Properties of load_series.  They are stated on the state right after    *)
(* the call, where raw still holds the two downloads.                      *)
(***************************************************************************)
Downloaded == Len(raw) = 2
RawBtc == raw[1]
RawUsd == raw[2]

HasColumn(df, field, ticker) ==
    IF df.multi THEN << field, ticker >> \in df.columns
    ELSE << field >> \in df.columns

\* the download has rows and a closing-price column
Usable(df, ticker) ==
    /\ df.index # {}
    /\ HasColumn(df, "Adj Close", ticker) \/ HasColumn(df, "Close", ticker)

\* the closing prices of a usable download: adjusted if there are any
Closing(df, ticker) ==
    IF HasColumn(df, "Adj Close", ticker)
    THEN df.data[IF df.multi THEN << "Adj Close", ticker >> ELSE << "Adj Close" >>]
    ELSE df.data[IF df.multi THEN << "Close", ticker >> ELSE << "Close" >>]

\* the dates on which a usable download has an observation
Observed(df, ticker) == {d \in df.index : Closing(df, ticker)[d] # NaN}

\* the observation in effect on d: the one of the latest observed date <= d
\* (NaN when nothing was observed by then)
InEffect(df, ticker, d) ==
    LET earlier == {e \in Observed(df, ticker) : e <= d}
    IN IF earlier = {} THEN NaN ELSE Closing(df, ticker)[Greatest(earlier)]

\* the dates of the union of the two cleaned inputs at which both inputs
\* have an observation at or before the date
CompositeDates ==
    {d \in Observed(RawBtc, BTC) \cup Observed(RawUsd, USD) :
        /\ \E e \in Observed(RawBtc, BTC) : e <= d
        /\ \E e \in Observed(RawUsd, USD) : e <= d}

NormalizerFails ==
    \/ ~Usable(RawBtc, BTC)
    \/ ~Usable(RawUsd, USD)
    \/ CompositeDates = {}

NoSimulationState ==
    /\ px = << >> /\ months = << >> /\ mi = 0
    /\ branch = "none" /\ exec_dates = << >>
    /\ k = 0 /\ records = << >>
    /\ dca = << >> /\ resumo = << >>

\* C7: when load_series fails (an empty download, a download without
\* 'Adj Close' and 'Close', or an empty composite series) the script stops
\* there: no execution date is resolved, no accounting step runs, no
\* ledger and no summary exist
C7_FailedLoadStopsTheRun ==
    /\ (Downloaded /\ NormalizerFails) => pc = "raised" /\ error \in LoadErrors
    /\ error \in LoadErrors => pc = "raised" /\ NoSimulationState

\* both downloads were usable and the composite series came out empty
C7_Witness ==
    /\ pc = "raised"
    /\ Downloaded
    /\ Usable(RawBtc, BTC) /\ Usable(RawUsd, USD)
    /\ Observed(RawBtc, BTC) # {}
    /\ error = "RuntimeError: serie vazia"

Loaded == Downloaded /\ pc = "months"

\* C8: on every date of the normalized series the exchange rate is the one
\* observed on that date or, without one, on the most recent earlier date
\* with an observation; likewise the asset price; the composite price is
\* their product
C8_ForwardFill ==
    Loaded =>
        \A i \in 1..Len(px) :
            /\ px[i].usd_brl = InEffect(RawUsd, USD, px[i].Date)
            /\ px[i].btc_usd = InEffect(RawBtc, BTC, px[i].Date)
            /\ px[i].btc_brl = FMul(InEffect(RawBtc, BTC, px[i].Date),
                                    InEffect(RawUsd, USD, px[i].Date))

\* a date without an exchange-rate observation, between an earlier and a
\* later observation of different rates
C8_Witness ==
    /\ Loaded
    /\ \E i \in 1..Len(px) :
          /\ px[i].Date \notin Observed(RawUsd, USD)
          /\ \E e \in Observed(RawUsd, USD) :
                /\ e > px[i].Date
                /\ Closing(RawUsd, USD)[e] # px[i].usd_brl

\* C10: the dates of the normalized series are exactly the dates of the
\* union of the cleaned inputs at which both inputs have an observation at
\* or before the date, in strictly increasing order; and load_series
\* raises instead of returning when there is no such date
C10_SeriesDates ==
    /\ Loaded =>
          /\ IndexOf(px) = CompositeDates
          /\ CompositeDates # {}
          /\ \A i \in 1..Len(px) : \A j \in 1..Len(px) :
                i < j => px[i].Date < px[j].Date
    /\ (Downloaded /\ Usable(RawBtc, BTC) /\ Usable(RawUsd, USD)
            /\ CompositeDates = {}) =>
          pc = "raised" /\ error = "RuntimeError: serie vazia"

\* a leading date was dropped and a later date with one observation kept
C10_Witness ==
    /\ Loaded
    /\ \E d \in Observed(RawBtc, BTC) \cup Observed(RawUsd, USD) :
          d \notin IndexOf(px)
    /\ \E d \in IndexOf(px) :
          d \notin Observed(RawBtc, BTC) \cap Observed(RawUsd, USD)

=============================================================================
